---- MODULE Spec2Model ----
(***************************************************************************)
(* Engineer resource management backend: the assignment store, the         *)
(* availability computation (Assignment.checkAvailability), the save-time  *)
(* allocation validator of the Assignment schema and the assignment and    *)
(* engineer route handlers that use them.                                  *)
(*                                                                         *)
(* Calendar dates are whole days, numbered 1..MaxDay.  Mongo ObjectIds are *)
(* opaque, so a new document takes the least identifier that no stored     *)
(* document and no request in flight holds.  The free-text role of an      *)
(* assignment is not read by any capacity computation and is left out of   *)
(* the stored record.                                                      *)
(*                                                                         *)
(* last is the exchange in flight: the request the server handled and the  *)
(* response it sent, together with the assignments collection as it was    *)
(* when the request arrived.  Under Spec requests are handled one at a     *)
(* time: the client takes the response (Receive) before the next request   *)
(* is handled.  last.read holds the documents an availability evaluation   *)
(* loaded, as they are in memory when the evaluation returns.              *)
(***************************************************************************)
EXTENDS Integers, FiniteSets, TLC

\* ------------------------------------------------------------ bounds
MaxDay == 4
MaxAssignments == 2

Days == 1..MaxDay
Ids == 1..MaxAssignments
\* sample allocation percentages inside the schema's range
Pcts == {0, 50, 100}

\* ------------------------------------------------------------ schema constants
MinAllocation == 0
MaxAllocation == 100
\* an allocationPercentage outside the schema's range, as a request may carry
OutOfRangePct == MaxAllocation + 50
\* a key missing from a request (body field or query parameter)
Absent == 0 - 1

\* ------------------------------------------------------------ users and projects
Engineers == {"e1", "e2"}
Managers == {"m1", "m2"}
UserIds == Engineers \cup Managers
ProjectIds == {"p1"}
Clients == {"c1", "c2"}

\* role of a stored user (the users collection is not written by these routes)
userRole(u) == IF u \in Engineers THEN "engineer" ELSE "manager"

VARIABLES
  assignments,  \* the assignments collection: _id -> document
  projects,     \* the projects collection: _id -> document
  last,         \* the request handled last and the response to it
  inflight,     \* per client, the create request it is in the middle of
  now,          \* the current day, as new Date() reads it
  deleting      \* the project deletion in progress

vars == <<assignments, projects, last, inflight, now, deleting>>

\* ------------------------------------------------------------ availability
RECURSIVE SumPct(_, _)
\* currentAssignments.reduce((sum, a) => sum + a.allocationPercentage, 0)
SumPct(store, S) ==
  IF S = {} THEN 0
  ELSE LET i == CHOOSE x \in S : TRUE
       IN store[i].allocationPercentage + SumPct(store, S \ {i})

\* the overlap query with strict comparisons: an assignment that only touches
\* the first or the last day of the window is not found
OverlappingStrict(store, engineerId, startDate, endDate) ==
  {i \in DOMAIN store :
     /\ store[i].engineerId = engineerId
     /\ store[i].startDate < endDate
     /\ store[i].endDate > startDate}

\* find({engineerId, startDate: {$lte: endDate}, endDate: {$gte: startDate}})
Overlapping(store, engineerId, startDate, endDate) ==
  {i \in DOMAIN store :
     /\ store[i].engineerId = engineerId
     /\ store[i].startDate <= endDate
     /\ store[i].endDate >= startDate}

\* the days the while loop visits for one assignment: startDate..endDate
DaysOf(a) == a.startDate .. a.endDate

\* the loop with current aliased to the document's own startDate: setDate moves
\* the document's startDate to the day after its endDate
WalkAliased(a) == [a EXCEPT !.startDate = a.endDate + 1]

\* a found document as the while loop leaves it: current is a copy of
\* startDate (new Date(assignment.startDate)) and setDate advances the copy
AfterWalk(a) == a

\* timelineMap after the forEach over the assignments found
TimelineMap(store, found) ==
  LET keys == UNION {DaysOf(store[i]) : i \in found}
  IN [d \in keys |-> SumPct(store, {i \in found : d \in DaysOf(store[i])})]

\* Array.from(timelineMap.values()).every(value => value < 100)
EveryBelowFull(timeline) == \A d \in DOMAIN timeline : timeline[d] < 100

\* Assignment.checkAvailability(engineerId, startDate, endDate); found is its
\* local array of documents when it returns, the other two fields its result
checkAvailability(store, engineerId, startDate, endDate) ==
  LET found == Overlapping(store, engineerId, startDate, endDate)
      timeline == TimelineMap(store, found)
  IN [isAvailable |-> EveryBelowFull(timeline), allocations |-> timeline,
      found |-> [i \in found |-> AfterWalk(store[i])]]

\* ------------------------------------------------------------ schema validators
\* the validator guarded by isModified alone, without isNew: a new document
\* passes unchecked
AllocationValidatorNotNew(store, id, doc, checked) ==
  IF checked /\ id \in DOMAIN store
  THEN LET others == Overlapping(store, doc.engineerId, doc.startDate, doc.endDate) \ {id}
       IN SumPct(store, others) + doc.allocationPercentage <= 100
  ELSE TRUE

\* allocationPercentage validator: others of the engineer overlapping the
\* document's window, the document itself excluded by _id, plus the value
AllocationValidator(store, id, doc, checked) ==
  IF checked
  THEN LET others == Overlapping(store, doc.engineerId, doc.startDate, doc.endDate) \ {id}
       IN SumPct(store, others) + doc.allocationPercentage <= 100
  ELSE TRUE

\* min: 0, max: 100
RangeValidator(doc) ==
  /\ doc.allocationPercentage >= MinAllocation
  /\ doc.allocationPercentage <= MaxAllocation

\* endDate validator: value > this.startDate
EndDateValidator(doc) == doc.endDate > doc.startDate

\* engineerId validator: the user exists and is an engineer
EngineerValidator(doc) ==
  doc.engineerId \in UserIds /\ userRole(doc.engineerId) = "engineer"

\* validation of the modified paths only: the endDate validator is skipped when
\* the stored endDate is kept
ValidatesModifiedOnly(store, id, doc, checked) ==
  /\ EngineerValidator(doc)
  /\ RangeValidator(doc)
  /\ AllocationValidator(store, id, doc, checked)
  /\ \/ (id \in DOMAIN store /\ doc.endDate = store[id].endDate)
     \/ EndDateValidator(doc)

\* document.validate() as save() runs it; checked = isNew || isModified('allocationPercentage')
Validates(store, id, doc, checked) ==
  /\ EngineerValidator(doc)
  /\ RangeValidator(doc)
  /\ AllocationValidator(store, id, doc, checked)
  /\ EndDateValidator(doc)

\* ------------------------------------------------------------ responses
NoAllocations == [d \in {} |-> 0]

\* res.status(status).json({message}) for request req of route op
Reply(op, req, status, message) ==
  [op |-> op, req |-> req, status |-> status, message |-> message,
   before |-> assignments, id |-> 0,
   hasVerdict |-> FALSE, isAvailable |-> FALSE, allocations |-> NoAllocations,
   hasAllocations |-> FALSE, guardRan |-> FALSE, read |-> NoAllocations]

\* a reply of a handler that called checkAvailability
WithVerdict(reply, availability) ==
  [reply EXCEPT !.hasVerdict = TRUE,
                !.isAvailable = availability.isAvailable,
                !.allocations = availability.allocations,
                !.read = availability.found]

\* res.status(400).json({message, allocations: availability.allocations})
ConflictReply(op, req, availability) ==
  [WithVerdict(Reply(op, req, 400, "InsufficientCapacity"), availability)
     EXCEPT !.hasAllocations = TRUE]

NoReply == [Reply("none", 0, 0, "none") EXCEPT !.before = 0]

\* no exchange is in flight: the next request can be handled
Ready == last.op = "none"

\* the _id of a new document
FreshId(store, held) == CHOOSE i \in Ids \ (DOMAIN store \cup held) :
                          \A j \in Ids \ (DOMAIN store \cup held) : i <= j

HeldIds == {inflight[c].id : c \in Clients} \ {0}

\* ------------------------------------------------------------ POST /
\* bodies of POST /api/assignments, with the manager sending them
CreateReqs ==
  [mgr : {"m1"}, projectId : ProjectIds, engineerId : Engineers,
   allocationPercentage : Pcts, startDate : Days, endDate : Days]
  \cup
  {[mgr |-> "m2", projectId |-> "p1", engineerId |-> "e1",
    allocationPercentage |-> 50, startDate |-> 1, endDate |-> 2],
   [mgr |-> "m1", projectId |-> "p1", engineerId |-> "m2",
    allocationPercentage |-> 50, startDate |-> 1, endDate |-> 2],
   [mgr |-> "m1", projectId |-> "p1", engineerId |-> "e1",
    allocationPercentage |-> OutOfRangePct, startDate |-> 1, endDate |-> 2]}

\* validateAssignment: isInt({min: 0, max: 100}) on allocationPercentage
validateAssignment(r) ==
  r.allocationPercentage >= MinAllocation /\ r.allocationPercentage <= MaxAllocation

\* Project.findOne({_id: projectId, managerId: req.user._id})
OwnedProject(r) ==
  r.projectId \in DOMAIN projects /\ projects[r.projectId].managerId = r.mgr

\* User.findOne({_id: engineerId, role: 'engineer'})
EngineerExists(r) == r.engineerId \in UserIds /\ userRole(r.engineerId) = "engineer"

\* new Assignment(req.body)
NewDoc(r) ==
  [engineerId |-> r.engineerId, projectId |-> r.projectId,
   allocationPercentage |-> r.allocationPercentage,
   startDate |-> r.startDate, endDate |-> r.endDate]

\* POST /api/assignments, handled without interleaving
CreateAssignment(r) ==
  /\ UNCHANGED <<projects, inflight, now, deleting>>
  /\ IF ~validateAssignment(r)
     THEN /\ last' = Reply("create", r, 400, "ValidationErrors")
          /\ UNCHANGED assignments
     ELSE IF ~OwnedProject(r)
     THEN /\ last' = Reply("create", r, 404, "Project not found")
          /\ UNCHANGED assignments
     ELSE IF ~EngineerExists(r)
     THEN /\ last' = Reply("create", r, 404, "Engineer not found")
          /\ UNCHANGED assignments
     ELSE LET availability == checkAvailability(assignments, r.engineerId,
                                                r.startDate, r.endDate)
              id == FreshId(assignments, HeldIds)
          IN IF ~availability.isAvailable
             THEN /\ last' = ConflictReply("create", r, availability)
                  /\ UNCHANGED assignments
             ELSE IF ~Validates(assignments, id, NewDoc(r), TRUE)
             THEN /\ last' = [WithVerdict(Reply("create", r, 500, "Error creating assignment"),
                                          availability)
                                EXCEPT !.guardRan = TRUE]
                  /\ UNCHANGED assignments
             ELSE /\ assignments' = [i \in DOMAIN assignments \cup {id} |->
                                       IF i = id THEN NewDoc(r) ELSE assignments[i]]
                  /\ last' = [WithVerdict(Reply("create", r, 201, "Created"), availability)
                                EXCEPT !.id = id, !.guardRan = TRUE]

\* a new document needs an identifier: the store is bounded
Create ==
  \E r \in CreateReqs :
    /\ Ready
    /\ Cardinality(DOMAIN assignments) < MaxAssignments
    /\ CreateAssignment(r)

\* ------------------------------------------------------------ GET /:id/availability
\* query strings of GET /api/engineers/:id/availability
AvailabilityReqs ==
  [engineerId : Engineers, startDate : Days, endDate : Days]
  \cup
  [engineerId : {"e1"}, startDate : {1, Absent}, endDate : {Absent}]

GetAvailability(q) ==
  /\ UNCHANGED <<assignments, projects, inflight, now, deleting>>
  /\ IF q.startDate = Absent \/ q.endDate = Absent
     THEN last' = Reply("availability", q, 400, "Start date and end date are required")
     ELSE LET availability == checkAvailability(assignments, q.engineerId,
                                                q.startDate, q.endDate)
          IN last' = [WithVerdict(Reply("availability", q, 200, "OK"), availability)
                        EXCEPT !.hasAllocations = TRUE]

Availability == \E q \in AvailabilityReqs : Ready /\ GetAvailability(q)

\* ------------------------------------------------------------ PATCH /:id
\* bodies of PATCH /api/assignments/:id; otherKey: a key outside allowedUpdates
PatchReqs ==
  [mgr : {"m1"}, id : Ids, otherKey : {FALSE},
   allocationPercentage : Pcts \cup {Absent},
   startDate : Days \cup {Absent}, endDate : Days \cup {Absent}]
  \cup
  [mgr : {"m2"}, id : Ids, otherKey : {FALSE}, allocationPercentage : {50},
   startDate : {Absent}, endDate : {Absent}]
  \cup
  [mgr : {"m1"}, id : Ids, otherKey : BOOLEAN,
   allocationPercentage : {OutOfRangePct, Absent},
   startDate : {Absent}, endDate : {Absent}]

\* updates.every(update => allowedUpdates.includes(update))
isValidOperation(r) == ~r.otherKey

\* if (req.body.allocationPercentage): the key is present and not 0
Truthy(v) == v # Absent /\ v # 0

\* updates.forEach(update => assignment[update] = req.body[update])
ApplyUpdates(doc, r) ==
  [doc EXCEPT
     !.allocationPercentage =
        IF r.allocationPercentage = Absent THEN @ ELSE r.allocationPercentage,
     !.startDate = IF r.startDate = Absent THEN @ ELSE r.startDate,
     !.endDate = IF r.endDate = Absent THEN @ ELSE r.endDate]

\* this.isModified('allocationPercentage')
isModified(doc, updated) == updated.allocationPercentage # doc.allocationPercentage

\* findById(id).populate('projectId') found the project
Populated(doc) == doc.projectId \in DOMAIN projects

PatchAssignment(r) ==
  /\ UNCHANGED <<projects, inflight, now, deleting>>
  /\ IF ~isValidOperation(r)
     THEN /\ last' = Reply("patch", r, 400, "Invalid updates")
          /\ UNCHANGED assignments
     ELSE IF r.id \notin DOMAIN assignments
     THEN /\ last' = Reply("patch", r, 404, "Assignment not found")
          /\ UNCHANGED assignments
     ELSE LET doc == assignments[r.id]
              updated == ApplyUpdates(doc, r)
              guarded == isModified(doc, updated)
              availability == checkAvailability(assignments, doc.engineerId,
                                                doc.startDate, doc.endDate)
              checked(reply) == IF Truthy(r.allocationPercentage)
                                THEN WithVerdict(reply, availability) ELSE reply
          IN IF ~Populated(doc)
             THEN /\ last' = [Reply("patch", r, 400, "Error updating assignment")
                                EXCEPT !.id = r.id]
                  /\ UNCHANGED assignments
             ELSE IF projects[doc.projectId].managerId # r.mgr
             THEN /\ last' = [Reply("patch", r, 403, "Not authorized") EXCEPT !.id = r.id]
                  /\ UNCHANGED assignments
             ELSE IF Truthy(r.allocationPercentage) /\ ~availability.isAvailable
             THEN /\ last' = [ConflictReply("patch", r, availability) EXCEPT !.id = r.id]
                  /\ UNCHANGED assignments
             ELSE IF ~Validates(assignments, r.id, updated, guarded)
             THEN /\ last' = [checked(Reply("patch", r, 400, "Error updating assignment"))
                                EXCEPT !.id = r.id, !.guardRan = guarded]
                  /\ UNCHANGED assignments
             ELSE /\ assignments' = [assignments EXCEPT ![r.id] = updated]
                  /\ last' = [checked(Reply("patch", r, 200, "Updated"))
                                EXCEPT !.id = r.id, !.guardRan = guarded]

Patch == \E r \in PatchReqs : Ready /\ PatchAssignment(r)

\* ------------------------------------------------------------ DELETE /:id
DeleteReqs == [mgr : Managers, id : Ids]

\* a removal by project (deleteMany({projectId})) in place of the document's
\* own remove(): every assignment of the same project goes with it
DeleteAssignmentByProject(r) ==
  /\ UNCHANGED <<projects, inflight, now, deleting>>
  /\ IF r.id \notin DOMAIN assignments
     THEN /\ last' = Reply("delete", r, 404, "Assignment not found")
          /\ UNCHANGED assignments
     ELSE LET doc == assignments[r.id]
          IN IF ~Populated(doc)
             THEN /\ last' = [Reply("delete", r, 500, "Error deleting assignment")
                                EXCEPT !.id = r.id]
                  /\ UNCHANGED assignments
             ELSE IF projects[doc.projectId].managerId # r.mgr
             THEN /\ last' = [Reply("delete", r, 403, "Not authorized") EXCEPT !.id = r.id]
                  /\ UNCHANGED assignments
             ELSE /\ assignments' =
                       [i \in {j \in DOMAIN assignments :
                                 assignments[j].projectId # doc.projectId} |-> assignments[i]]
                  /\ last' = [Reply("delete", r, 200, "Assignment deleted successfully")
                                EXCEPT !.id = r.id]

DeleteAssignment(r) ==
  /\ UNCHANGED <<projects, inflight, now, deleting>>
  /\ IF r.id \notin DOMAIN assignments
     THEN /\ last' = Reply("delete", r, 404, "Assignment not found")
          /\ UNCHANGED assignments
     ELSE LET doc == assignments[r.id]
          IN IF ~Populated(doc)
             THEN /\ last' = [Reply("delete", r, 500, "Error deleting assignment")
                                EXCEPT !.id = r.id]
                  /\ UNCHANGED assignments
             ELSE IF projects[doc.projectId].managerId # r.mgr
             THEN /\ last' = [Reply("delete", r, 403, "Not authorized") EXCEPT !.id = r.id]
                  /\ UNCHANGED assignments
             ELSE /\ assignments' = [i \in DOMAIN assignments \ {r.id} |-> assignments[i]]
                  /\ last' = [Reply("delete", r, 200, "Assignment deleted successfully")
                                EXCEPT !.id = r.id]

Delete == \E r \in DeleteReqs : Ready /\ DeleteAssignment(r)

\* the client takes the response; the server is ready for the next request
Receive ==
  /\ ~Ready
  /\ last' = NoReply
  /\ UNCHANGED <<assignments, projects, inflight, now, deleting>>

\* ------------------------------------------------------------ concurrent creates
\* POST /api/assignments as the event loop runs it: the handler yields at each
\* await, so the reads and the write of two requests interleave.

\* a client with no request in flight
NoReq == [mgr |-> "m1", projectId |-> "p1", engineerId |-> "e1",
          allocationPercentage |-> 0, startDate |-> 1, endDate |-> 1]

Idle == [pc |-> "idle", id |-> 0, req |-> NoReq]

\* validationResult(req), await Project.findOne, await User.findOne
RaceStart(c, r) ==
  /\ inflight[c].pc = "idle"
  /\ UNCHANGED <<assignments, projects, now, deleting>>
  /\ IF ~validateAssignment(r)
     THEN /\ last' = Reply("create", r, 400, "ValidationErrors")
          /\ inflight' = [inflight EXCEPT ![c] = [pc |-> "done", id |-> 0, req |-> r]]
     ELSE IF ~OwnedProject(r)
     THEN /\ last' = Reply("create", r, 404, "Project not found")
          /\ inflight' = [inflight EXCEPT ![c] = [pc |-> "done", id |-> 0, req |-> r]]
     ELSE IF ~EngineerExists(r)
     THEN /\ last' = Reply("create", r, 404, "Engineer not found")
          /\ inflight' = [inflight EXCEPT ![c] = [pc |-> "done", id |-> 0, req |-> r]]
     ELSE /\ UNCHANGED last
          /\ inflight' = [inflight EXCEPT ![c] = [pc |-> "check", id |-> 0, req |-> r]]

\* await Assignment.checkAvailability(...), then new Assignment(req.body)
RaceCheck(c) ==
  /\ inflight[c].pc = "check"
  /\ UNCHANGED <<assignments, projects, now, deleting>>
  /\ LET r == inflight[c].req
         availability == checkAvailability(assignments, r.engineerId,
                                           r.startDate, r.endDate)
     IN IF ~availability.isAvailable
        THEN /\ last' = ConflictReply("create", r, availability)
             /\ inflight' = [inflight EXCEPT ![c].pc = "done"]
        ELSE /\ UNCHANGED last
             /\ inflight' = [inflight EXCEPT ![c].pc = "validate",
                                              ![c].id = FreshId(assignments, HeldIds)]

\* save(): the validators run (the allocation validator awaits Assignment.find)
RaceValidate(c) ==
  /\ inflight[c].pc = "validate"
  /\ UNCHANGED <<assignments, projects, now, deleting>>
  /\ IF ~Validates(assignments, inflight[c].id, NewDoc(inflight[c].req), TRUE)
     THEN /\ last' = [Reply("create", inflight[c].req, 500, "Error creating assignment")
                        EXCEPT !.guardRan = TRUE]
          /\ inflight' = [inflight EXCEPT ![c].pc = "done", ![c].id = 0]
     ELSE /\ UNCHANGED last
          /\ inflight' = [inflight EXCEPT ![c].pc = "insert"]

\* save(): the insert, after validation passed
RaceInsert(c) ==
  /\ inflight[c].pc = "insert"
  /\ UNCHANGED <<projects, now, deleting>>
  /\ LET id == inflight[c].id
     IN /\ assignments' = [i \in DOMAIN assignments \cup {id} |->
                             IF i = id THEN NewDoc(inflight[c].req) ELSE assignments[i]]
        /\ last' = [Reply("create", inflight[c].req, 201, "Created")
                      EXCEPT !.id = id, !.guardRan = TRUE]
        /\ inflight' = [inflight EXCEPT ![c].pc = "done"]

\* ------------------------------------------------------------ DELETE /api/projects/:id
\* DELETE /api/projects/:id as the event loop runs it: the handler yields at
\* each await, so create requests and the clock move between its steps.
ProjectDeleteReqs == [mgr : Managers, projectId : ProjectIds]

\* no project deletion requested yet
NoDelete == [pc |-> "idle", mgr |-> "m1", projectId |-> "p1"]

\* await Project.findOne({_id: req.params.id, managerId: req.user._id})
ProjectDeleteStart(r) ==
  /\ deleting.pc = "idle"
  /\ UNCHANGED <<assignments, projects, inflight, now>>
  /\ IF r.projectId \notin DOMAIN projects \/ projects[r.projectId].managerId # r.mgr
     THEN /\ last' = Reply("deleteProject", r, 404, "Project not found")
          /\ deleting' = [pc |-> "done", mgr |-> r.mgr, projectId |-> r.projectId]
     ELSE /\ UNCHANGED last
          /\ deleting' = [pc |-> "check", mgr |-> r.mgr, projectId |-> r.projectId]

\* Assignment.find({projectId: project._id, endDate: {$gte: new Date()}})
activeAssignments(store, projectId, today) ==
  {i \in DOMAIN store : store[i].projectId = projectId /\ store[i].endDate >= today}

\* await Assignment.find(...), then the test of activeAssignments.length
ProjectDeleteCheck ==
  /\ deleting.pc = "check"
  /\ UNCHANGED <<assignments, projects, inflight, now>>
  /\ IF activeAssignments(assignments, deleting.projectId, now) # {}
     THEN /\ last' = Reply("deleteProject", [mgr |-> deleting.mgr,
                                              projectId |-> deleting.projectId],
                           400, "Cannot delete project with active assignments")
          /\ deleting' = [deleting EXCEPT !.pc = "done"]
     ELSE /\ UNCHANGED last
          /\ deleting' = [deleting EXCEPT !.pc = "remove"]

\* await project.remove(), then the reply
ProjectDeleteRemove ==
  /\ deleting.pc = "remove"
  /\ UNCHANGED <<assignments, inflight, now>>
  /\ projects' = [p \in DOMAIN projects \ {deleting.projectId} |-> projects[p]]
  /\ last' = Reply("deleteProject", [mgr |-> deleting.mgr,
                                     projectId |-> deleting.projectId],
                   200, "Project deleted successfully")
  /\ deleting' = [deleting EXCEPT !.pc = "done"]

\* a day passes
Tick ==
  /\ now < MaxDay
  /\ now' = now + 1
  /\ UNCHANGED <<assignments, projects, last, inflight, deleting>>

\* ------------------------------------------------------------ specifications
Init ==
  /\ assignments = [i \in {} |-> 0]
  /\ projects = [p \in ProjectIds |-> [managerId |-> "m1"]]
  /\ last = NoReply
  /\ inflight = [c \in Clients |-> Idle]
  /\ now = 1
  /\ deleting = NoDelete

\* requests handled one at a time
Next ==
  \/ Create
  \/ Patch
  \/ Delete
  \/ Availability
  \/ Receive

Spec == Init /\ [][Next]_vars

\* two clients, each sending one create, interleaved at the awaits
NextRace ==
  \/ \E c \in Clients : \E r \in CreateReqs :
        /\ Cardinality(DOMAIN assignments)
             + Cardinality({k \in Clients : inflight[k].pc \notin {"idle", "done"}})
             < MaxAssignments
        /\ RaceStart(c, r)
  \/ \E c \in Clients : RaceCheck(c)
  \/ \E c \in Clients : RaceValidate(c)
  \/ \E c \in Clients : RaceInsert(c)

SpecRace == Init /\ [][NextRace]_vars

\* creates and deletes only, handled one at a time
NextCreateDelete ==
  \/ Create
  \/ Delete
  \/ Receive

SpecCreateDelete == Init /\ [][NextCreateDelete]_vars

\* the create requests sent while a project is being deleted
ProjectRaceReqs ==
  [mgr : {"m1"}, projectId : ProjectIds, engineerId : {"e1"},
   allocationPercentage : {50}, startDate : Days, endDate : Days]

\* create requests and one project deletion, interleaved at the awaits, while
\* the days pass
NextProjectRace ==
  \/ \E c \in Clients : \E r \in ProjectRaceReqs :
        /\ Cardinality(DOMAIN assignments)
             + Cardinality({k \in Clients : inflight[k].pc \notin {"idle", "done"}})
             < MaxAssignments
        /\ RaceStart(c, r)
  \/ \E c \in Clients : RaceCheck(c)
  \/ \E c \in Clients : RaceValidate(c)
  \/ \E c \in Clients : RaceInsert(c)
  \/ \E r \in ProjectDeleteReqs : ProjectDeleteStart(r)
  \/ ProjectDeleteCheck
  \/ ProjectDeleteRemove
  \/ Tick

SpecProjectRace == Init /\ [][NextProjectRace]_vars

\* the documents the schema validators let into the collection
Docs ==
  {a \in [engineerId : Engineers, projectId : ProjectIds,
          allocationPercentage : Pcts, startDate : Days, endDate : Days] :
     a.endDate > a.startDate}

\* an order on documents, to list a collection once and not once per numbering
DocKey(a) ==
  (((IF a.engineerId = "e1" THEN 0 ELSE 1) * (MaxDay + 1) + a.startDate)
     * (MaxDay + 1) + a.endDate) * (MaxAllocation + 1) + a.allocationPercentage

\* the collections of up to MaxAssignments valid documents, each listed once:
\* identifiers 1..k, documents in DocKey order (availability reads no _id)
Stores ==
  {s \in UNION {[1 .. k -> Docs] : k \in 0 .. MaxAssignments} :
     \A i, j \in DOMAIN s : i < j => DocKey(s[i]) <= DocKey(s[j])}

\* one availability query against any collection of valid documents
InitAvail ==
  /\ assignments \in Stores
  /\ projects = [p \in ProjectIds |-> [managerId |-> "m1"]]
  /\ last = NoReply
  /\ inflight = [c \in Clients |-> Idle]
  /\ now = 1
  /\ deleting = NoDelete

SpecAvail == InitAvail /\ [][Availability]_vars

\* ------------------------------------------------------------ capacity per day
\* the sum of allocationPercentage over the engineer's stored assignments covering day d
DaySum(store, engineerId, d) ==
  SumPct(store, {i \in DOMAIN store :
                   store[i].engineerId = engineerId /\ d \in DaysOf(store[i])})

OverAllocated(store) ==
  \E e \in Engineers : \E d \in Days : DaySum(store, e, d) > 100

\* C1: after any sequence of create, update and delete requests handled one at
\* a time, no engineer has a day whose covering assignments sum to more than 100.
C1_NoDayOver100 == ~OverAllocated(assignments)

\* C2: when two create requests interleave, there is no state in which both are
\* persisted and some day of an engineer sums to more than 100.
C2_AtomicCreate ==
  ~(/\ \A c \in Clients : inflight[c].pc = "done" /\ inflight[c].id \in DOMAIN assignments
    /\ OverAllocated(assignments))

\* a create request that passes field validation, names an existing engineer and
\* a project of the requesting manager, over a window that ends after it starts
Eligible(r) ==
  /\ validateAssignment(r)
  /\ OwnedProject(r)
  /\ EngineerExists(r)
  /\ r.endDate > r.startDate

\* every day of the proposed window stays within 100 with the candidate added
FitsEveryDay(store, r) ==
  \A d \in r.startDate .. r.endDate :
    DaySum(store, r.engineerId, d) + r.allocationPercentage <= 100

\* C3: an eligible create is persisted exactly when every day of its window
\* stays within 100 with the candidate added; otherwise nothing is persisted.
C3_PersistIffFits ==
  (last.op = "create" /\ Eligible(last.req))
  => /\ (last.status = 201) <=> FitsEveryDay(last.before, last.req)
     /\ last.status # 201 => assignments = last.before

\* C4: the verdict is available exactly when no day's accumulated total exceeds
\* 100: a day at exactly 100 is available, a day at 101 or more is not.
C4_StrictOver100 ==
  (last.op = "availability" /\ last.hasVerdict)
  => (last.isAvailable <=> \A d \in DOMAIN last.allocations : last.allocations[d] <= 100)

\* the total the verdict reports for day d; a day it does not list counts as 0
TotalAt(allocations, d) == IF d \in DOMAIN allocations THEN allocations[d] ELSE 0

\* C5: in the verdict the create path computes, every day of the proposed window
\* carries the sum of the existing covering assignments plus the candidate.
C5_CandidateCounted ==
  (last.op = "create" /\ last.hasVerdict /\ Eligible(last.req))
  => \A d \in last.req.startDate .. last.req.endDate :
       TotalAt(last.allocations, d)
         = DaySum(last.before, last.req.engineerId, d) + last.req.allocationPercentage

\* C6: a create whose candidate pushes some day over 100 ends in the capacity
\* conflict reply that carries the allocations breakdown, not in a generic error.
C6_ConflictCarriesBreakdown ==
  (last.op = "create" /\ Eligible(last.req) /\ ~FitsEveryDay(last.before, last.req))
  => (last.message = "InsufficientCapacity" /\ last.hasAllocations)

\* no other assignment of the same engineer intersects the window of assignment id
SoleOverlap(store, id) ==
  Overlapping(store, store[id].engineerId, store[id].startDate, store[id].endDate) = {id}

\* a PATCH by the project's manager that sets only allocationPercentage, in range
PctOnly(r) ==
  /\ r.mgr = "m1" /\ ~r.otherKey
  /\ r.allocationPercentage \in MinAllocation .. MaxAllocation
  /\ r.startDate = Absent /\ r.endDate = Absent

\* C7: updating the percentage of an assignment that is the engineer's only
\* overlapping assignment is never rejected as a capacity conflict.
C7_SelfExcluded ==
  (/\ last.op = "patch" /\ PctOnly(last.req)
   /\ last.req.id \in DOMAIN last.before
   /\ SoleOverlap(last.before, last.req.id))
  => last.message # "InsufficientCapacity"

\* C8: an update that changes allocationPercentage, startDate or endDate is
\* persisted only after a capacity evaluation of the proposed percentage over
\* the proposed window.
C8_EvaluatedBeforeSave ==
  (/\ last.op = "patch" /\ last.status = 200
   /\ assignments[last.id] # last.before[last.id])
  => last.guardRan

\* no two stored assignments of the engineer share a calendar day
NonOverlapping(store, engineerId) ==
  \A i, j \in DOMAIN store :
    (i # j /\ store[i].engineerId = engineerId /\ store[j].engineerId = engineerId)
    => DaysOf(store[i]) \cap DaysOf(store[j]) = {}

\* C9: when no two assignments of the engineer share a day, the availability
\* check over any window answers isAvailable = true.
C9_DisjointIsAvailable ==
  (/\ last.op = "availability" /\ last.hasVerdict
   /\ NonOverlapping(assignments, last.req.engineerId))
  => last.isAvailable

C11_InvertedWindowFails ==
  (/\ last.op = "availability"
   /\ last.req.startDate # Absent /\ last.req.endDate # Absent
   /\ last.req.endDate < last.req.startDate)
  => (last.status # 200 /\ ~last.hasVerdict)

WithinSchemaBounds(doc) ==
  /\ doc.endDate > doc.startDate
  /\ doc.allocationPercentage >= MinAllocation
  /\ doc.allocationPercentage <= MaxAllocation

\* C13: every stored assignment has endDate > startDate and a percentage in
\* 0..100; a create or an update whose resulting document would break either
\* bound is rejected and leaves the stored assignments unchanged.
C13_StoredWithinBounds ==
  /\ \A i \in DOMAIN assignments : WithinSchemaBounds(assignments[i])
  /\ (last.op = "create" /\ ~WithinSchemaBounds(NewDoc(last.req)))
       => (last.status # 201 /\ assignments = last.before)
  /\ (/\ last.op = "patch" /\ last.req.id \in DOMAIN last.before
      /\ ~WithinSchemaBounds(ApplyUpdates(last.before[last.req.id], last.req)))
       => (last.status # 200 /\ assignments = last.before)

\* the project's manager moves only startDate, onto or past the stored endDate:
\* the update reaches save() and is rejected there
C13_Witness ==
  /\ last.op = "patch" /\ last.req.mgr = "m1" /\ ~last.req.otherKey
  /\ last.req.id \in DOMAIN last.before
  /\ last.req.allocationPercentage = Absent /\ last.req.endDate = Absent
  /\ last.req.startDate # Absent
  /\ last.req.startDate >= last.before[last.req.id].endDate
  /\ last.status = 400 /\ last.message = "Error updating assignment"
  /\ assignments = last.before

\* the assignments of the request's engineer that intersect its window
OverlapOf(store, r) == Overlapping(store, r.engineerId, r.startDate, r.endDate)

\* the checks of POST / that read the assignments pass for request r on store
\* (the new document's _id is one no stored document holds)
GuardsPass(store, r) ==
  /\ checkAvailability(store, r.engineerId, r.startDate, r.endDate).isAvailable
  /\ Validates(store, MaxAssignments + 1, NewDoc(r), TRUE)

\* C14: a successful DELETE /:id removes exactly the addressed assignment and
\* leaves every other assignment and the projects as they were; afterwards no
\* availability evaluation loads the deleted assignment, and a create whose
\* only overlapping assignment was the deleted one passes the checks of POST /
\* and is persisted.
C14_DeleteReleasesOnlyItself ==
  /\ (last.op = "delete" /\ last.status = 200)
       => /\ last.id \in DOMAIN last.before
          /\ assignments = [i \in DOMAIN last.before \ {last.id} |-> last.before[i]]
          /\ \A p \in ProjectIds : p \in DOMAIN projects /\ projects[p].managerId = "m1"
          /\ \A e \in Engineers : \A s, t \in Days :
               last.id \notin DOMAIN checkAvailability(assignments, e, s, t).found
          /\ \A r \in CreateReqs :
               (Eligible(r) /\ OverlapOf(last.before, r) = {last.id})
               => GuardsPass(assignments, r)
  /\ (last.op = "create" /\ Eligible(last.req) /\ OverlapOf(last.before, last.req) = {})
       => (last.status = 201 /\ last.id \in DOMAIN assignments)

\* a delete that leaves another assignment in the store and frees a window in
\* which a create was refused because of the deleted assignment alone
C14_Witness ==
  /\ last.op = "delete" /\ last.status = 200
  /\ DOMAIN assignments # {}
  /\ \E r \in CreateReqs :
       /\ Eligible(r)
       /\ OverlapOf(last.before, r) = {last.id}
       /\ ~GuardsPass(last.before, r)
       /\ GuardsPass(assignments, r)

C16_ActiveAssignmentHasProject ==
  \A i \in DOMAIN assignments :
    assignments[i].endDate >= now => assignments[i].projectId \in DOMAIN projects

====
